---- MODULE Spec2Model ----
(***************************************************************************)
(* A model of app/services/qa_service.py: the lazily loaded question-      *)
(* answering oracle (_load_qa_model), the window segmenter                 *)
(* (smart_chunking) and the request pipeline (answer_question).            *)
(*                                                                         *)
(* Python strings are sequences of one-character strings, so that split,   *)
(* join, find, rfind, strip and slicing are computed as Python computes    *)
(* them.  Scores are integers in hundredths (0.05 is 5, 0.95 is 95).       *)
(***************************************************************************)
EXTENDS Integers, Sequences, FiniteSets, TLC

VARIABLES
    \* ---- module globals of qa_service.py (lines 9-11)
    qa_model, qa_tokenizer, qa_pipeline,
    \* ---- threads calling _load_qa_model concurrently
    tpc,            \* each thread's position inside _load_qa_model
    treturned,      \* what each thread's last call returned (or NoReturn)
    tcalls,         \* calls each thread has started
    constructions,  \* completed constructions: <<thread, handle kind>>
    \* ---- smart_chunking's locals
    text, max_length, overlap, words, start, chunks,
    \* ---- answer_question's locals
    pc, transcript, question, ci, all_answers, oracle_log, result,
    \* ---- the pipeline as answer_question sees it: the outcomes a call can have
    oracle,
    \* ---- one of the module's functions called on its own: the call, what it returned
    call, ret

loaderVars == <<tpc, treturned, tcalls, constructions>>
globalVars == <<qa_model, qa_tokenizer, qa_pipeline>>
chunkVars == <<text, max_length, overlap, words, start, chunks>>
qaVars == <<transcript, question, ci, all_answers, oracle_log, result>>
fnVars == <<call, ret>>
vars == <<globalVars, loaderVars, chunkVars, pc, qaVars, oracle, fnVars>>

(***************************************************************************)
(* Bounds of the model.                                                    *)
(***************************************************************************)
\* longest text, in words, handed to smart_chunking on its own
MaxTextWords == 5
\* largest max_length handed to smart_chunking on its own
MaxChunkSize == 4
\* largest overlap handed to smart_chunking on its own
MaxOverlap == 2
\* the loop of smart_chunking is followed for at most this many windows
MaxChunks == 6

\* Python's None, among values that are sequences
None == <<"None">>
\* a call that has not returned, a request that has no Result yet
NoReturn == <<"NoReturn">>
NoResult == [answer |-> None, confidence |-> -1, source_text |-> None]
\* no function is being called on its own
NoCall == [fn |-> "none"]

\* the threads that call _load_qa_model
Threads == {1, 2}

(***************************************************************************)
(* Python's str and list operations.                                       *)
(***************************************************************************)
Min(a, b) == IF a < b THEN a ELSE b
Max(a, b) == IF a > b THEN a ELSE b

\* str.isspace of one character
Whitespace == {" "}
\* the three sentence terminators smart_chunking looks for
Terminators == {".", "!", "?"}

\* s[a:b] with Python's clamping and negative indices
PySlice(s, a, b) ==
    LET n == Len(s)
        lo == IF a < 0 THEN Max(n + a, 0) ELSE Min(a, n)
        hi == IF b < 0 THEN Max(n + b, 0) ELSE Min(b, n)
    IN IF lo >= hi THEN <<>> ELSE SubSeq(s, lo + 1, hi)

\* s.strip()
RECURSIVE LStrip(_)
LStrip(s) == IF s # <<>> /\ Head(s) \in Whitespace THEN LStrip(Tail(s)) ELSE s
RECURSIVE RStrip(_)
RStrip(s) ==
    IF s # <<>> /\ s[Len(s)] \in Whitespace
    THEN RStrip(SubSeq(s, 1, Len(s) - 1)) ELSE s
Strip(s) == RStrip(LStrip(s))

\* s.split(): the maximal runs of non-whitespace characters.  The string is
\* split by halves, a run that crosses the middle being put together again, so
\* that a text of a thousand words is split in a few levels of recursion
RECURSIVE SplitWs(_)
SplitWs(s) ==
    IF s = <<>> THEN <<>>
    ELSE IF Len(s) = 1 THEN (IF s[1] \in Whitespace THEN <<>> ELSE <<s>>)
    ELSE LET h == Len(s) \div 2
             l == SplitWs(SubSeq(s, 1, h))
             r == SplitWs(SubSeq(s, h + 1, Len(s)))
         IN IF s[h] \notin Whitespace /\ s[h + 1] \notin Whitespace
            THEN SubSeq(l, 1, Len(l) - 1) \o <<l[Len(l)] \o r[1]>> \o Tail(r)
            ELSE l \o r
Split(s) == SplitWs(s)

\* s.split(c): the pieces between occurrences of c, empty pieces kept
RECURSIVE SplitOnAcc(_, _, _, _)
SplitOnAcc(s, c, cur, acc) ==
    IF s = <<>> THEN Append(acc, cur)
    ELSE IF Head(s) = c
         THEN SplitOnAcc(Tail(s), c, <<>>, Append(acc, cur))
         ELSE SplitOnAcc(Tail(s), c, Append(cur, Head(s)), acc)
SplitOn(s, c) == SplitOnAcc(s, c, <<>>, <<>>)

\* sep.join(parts)
RECURSIVE Join(_, _)
Join(parts, sep) ==
    IF parts = <<>> THEN <<>>
    ELSE IF Len(parts) = 1 THEN parts[1]
    ELSE LET h == Len(parts) \div 2
         IN Join(SubSeq(parts, 1, h), sep) \o sep
               \o Join(SubSeq(parts, h + 1, Len(parts)), sep)

\* s.rfind(c) for one character: the last 0-based index, or -1
RFind(s, c) ==
    LET hits == {i \in 1..Len(s) : s[i] = c}
    IN IF hits = {} THEN -1 ELSE (CHOOSE i \in hits : \A j \in hits : j <= i) - 1

\* s.find(sub): the first 0-based index where sub occurs, or -1
Find(s, sub) ==
    LET hits == {i \in 0..(Len(s) - Len(sub)) : SubSeq(s, i + 1, i + Len(sub)) = sub}
    IN IF hits = {} THEN -1 ELSE CHOOSE i \in hits : \A j \in hits : i <= j

\* every sequence over S of at most n elements
RECURSIVE SeqsUpTo(_, _)
SeqsUpTo(S, n) ==
    IF n = 0 THEN {<<>>}
    ELSE LET shorter == SeqsUpTo(S, n - 1)
         IN shorter \cup {Append(q, x) : q \in {r \in shorter : Len(r) = n - 1}, x \in S}

\* s.endswith(c) for one character
EndsWith(s, c) == s # <<>> /\ s[Len(s)] = c

(***************************************************************************)
(* smart_chunking (lines 101-153).                                         *)
(***************************************************************************)
\* the largest power of two that is at most r, for r >= 1
RECURSIVE PowerOfTwoBelow(_)
PowerOfTwoBelow(r) == IF r < 2 THEN 1 ELSE 2 * PowerOfTwoBelow(r \div 2)

\* line 141 multiplies in binary floating point.  The double nearest 0.7 lies
\* 0.4 * 2^-53 below 0.7, so length * 0.7 is either the exact product or, when
\* that is a whole number r in the upper quarter of its binade (r > 1.75 * 2^e),
\* the double just below r
RoundsBelow(length) ==
    /\ length > 0 /\ length % 10 = 0
    /\ LET r == (7 * length) \div 10
       IN 4 * r > 7 * PowerOfTwoBelow(r)

\* line 141: sentence_end > len(chunk_text) * 0.7
InLastThirty(sentence_end, length) ==
    IF RoundsBelow(length) THEN 10 * sentence_end >= 7 * length
    ELSE 10 * sentence_end > 7 * length

\* lines 130-144: one slice of the loop: the window's text and where it ends
ChunkSlice(ws, st, maxlen) ==
    LET end0 == Min(st + maxlen, Len(ws))
        chunk_text0 == Join(PySlice(ws, st, end0), <<" ">>)
        sentence_end == Max(RFind(chunk_text0, "."),
                            Max(RFind(chunk_text0, "!"), RFind(chunk_text0, "?")))
        trimmed == SubSeq(chunk_text0, 1, sentence_end + 1)
    IN IF end0 < Len(ws) /\ InLastThirty(sentence_end, Len(chunk_text0))
       THEN [chunk_text |-> trimmed, end |-> st + Len(Split(trimmed))]
       ELSE [chunk_text |-> chunk_text0, end |-> end0]

\* a variant of line 151 that starts the next slice where the last one ended
NextStartWithoutOverlap(end, ov) == end

\* line 151: where the next slice starts
NextStart(end, ov) == end - ov

\* lines 118-127: entry: a short text is its own single window
ChunkEnter ==
    /\ pc = "chunk_enter"
    /\ words' = Split(text)
    /\ IF Len(Split(text)) <= max_length
       THEN chunks' = <<text>> /\ pc' = "chunk_done"
       ELSE chunks' = <<>> /\ pc' = "chunk_loop"
    /\ start' = 0
    /\ UNCHANGED <<fnVars, oracle, text, max_length, overlap, globalVars, loaderVars, qaVars>>

\* lines 129-151: one iteration of the while loop
ChunkIter ==
    /\ pc = "chunk_loop"
    /\ start < Len(words)
    /\ Len(chunks) < MaxChunks
    /\ LET sl == ChunkSlice(words, start, max_length)
       IN /\ chunks' = Append(chunks, sl.chunk_text)
          /\ IF sl.end >= Len(words)
             THEN pc' = "chunk_done" /\ start' = start
             ELSE pc' = "chunk_loop" /\ start' = NextStart(sl.end, overlap)
    /\ UNCHANGED <<fnVars, oracle, text, max_length, overlap, words, globalVars, loaderVars, qaVars>>

(***************************************************************************)
(* Characters: str.upper, str.lower, str.isupper and the regular           *)
(* expression classes \w and [^\w\s.,!?;:()-] on the letters, digits and   *)
(* punctuation the model's texts are written in.                           *)
(***************************************************************************)
LowerLetters == <<"a", "b", "c", "d", "e", "f", "g", "h", "i", "j", "k", "l", "m", "n", "o", "p", "q", "r", "s", "t", "u", "v", "w", "x", "y", "z">>
UpperLetters == <<"A", "B", "C", "D", "E", "F", "G", "H", "I", "J", "K", "L", "M", "N", "O", "P", "Q", "R", "S", "T", "U", "V", "W", "X", "Y", "Z">>
Digits == {"0", "1", "2", "3", "4", "5", "6", "7", "8", "9"}
LetterIndexes == 1..Len(LowerLetters)
IsLower(c) == \E i \in LetterIndexes : LowerLetters[i] = c
IsUpper(c) == \E i \in LetterIndexes : UpperLetters[i] = c
ToUpper(c) ==
    IF IsLower(c) THEN UpperLetters[CHOOSE i \in LetterIndexes : LowerLetters[i] = c] ELSE c
ToLower(c) ==
    IF IsUpper(c) THEN LowerLetters[CHOOSE i \in LetterIndexes : UpperLetters[i] = c] ELSE c
LowerStr(s) == [i \in 1..Len(s) |-> ToLower(s[i])]
\* \w
IsWordChar(c) == IsLower(c) \/ IsUpper(c) \/ c \in Digits \/ c = "_"
\* the punctuation line 71 keeps
KeptPunctuation == {".", ",", "!", "?", ";", ":", "(", ")", "-"}
IsKept(c) == IsWordChar(c) \/ c \in Whitespace \/ c \in KeptPunctuation

\* x[0].upper() + x[1:]
Capitalize(s) == IF s = <<>> THEN s ELSE <<ToUpper(s[1])>> \o Tail(s)

\* re.findall(r'\w+', s): the maximal runs of word characters
RECURSIVE WordRunsAcc(_, _, _)
WordRunsAcc(s, cur, acc) ==
    IF s = <<>> THEN (IF cur = <<>> THEN acc ELSE Append(acc, cur))
    ELSE IF IsWordChar(Head(s))
         THEN WordRunsAcc(Tail(s), Append(cur, Head(s)), acc)
         ELSE WordRunsAcc(Tail(s), <<>>, IF cur = <<>> THEN acc ELSE Append(acc, cur))
WordRuns(s) == WordRunsAcc(s, <<>>, <<>>)
WordSet(s) == {WordRuns(s)[i] : i \in 1..Len(WordRuns(s))}

\* sub in s
Contains(s, sub) == Find(s, sub) # -1

(***************************************************************************)
(* preprocess_text (lines 61-82) and preprocess_question (lines 84-99).    *)
(***************************************************************************)
\* line 67: re.sub(r'\s+', ' ', text.strip())
RECURSIVE CollapseWs(_)
CollapseWs(s) ==
    IF s = <<>> THEN <<>>
    ELSE IF Head(s) \in Whitespace
         THEN <<" ">> \o CollapseWs(LStrip(s))
         ELSE <<Head(s)>> \o CollapseWs(Tail(s))

\* u repeated k times
RECURSIVE Repeat(_, _)
Repeat(u, k) == IF k = 0 THEN <<>> ELSE u \o Repeat(u, k - 1)

\* line 70 on one maximal run of word characters: \b(\w+)\1+\b matches the run
\* when it is u repeated two or more times, the greedy (\w+) taking the longest
\* such u, and the run is replaced by that u
DedupRun(run) ==
    LET units == {n \in 1..(Len(run) \div 2) :
                     /\ Len(run) % n = 0
                     /\ Repeat(SubSeq(run, 1, n), Len(run) \div n) = run}
    IN IF units = {} THEN run
       ELSE SubSeq(run, 1, CHOOSE n \in units : \A m \in units : m <= n)

\* line 70: re.sub(r'\b(\w+)\1+\b', r'\1', text)
RECURSIVE RemoveRepeatedAcc(_, _)
RemoveRepeatedAcc(s, run) ==
    IF s = <<>> THEN DedupRun(run)
    ELSE IF IsWordChar(Head(s))
         THEN RemoveRepeatedAcc(Tail(s), Append(run, Head(s)))
         ELSE DedupRun(run) \o <<Head(s)>> \o RemoveRepeatedAcc(Tail(s), <<>>)
RemoveRepeated(s) == RemoveRepeatedAcc(s, <<>>)

\* line 71: re.sub(r'[^\w\s.,!?;:()-]', '', text)
RemoveSpecial(s) == SelectSeq(s, IsKept)

\* lines 74-82: strip each '.'-separated piece, drop the empty ones,
\* capitalize, join with '. '
RECURSIVE CapitalizeEach(_)
CapitalizeEach(parts) ==
    IF parts = <<>> THEN <<>>
    ELSE LET sentence == Strip(Head(parts))
         IN IF sentence = <<>> THEN CapitalizeEach(Tail(parts))
            ELSE <<Capitalize(sentence)>> \o CapitalizeEach(Tail(parts))

\* a value that is not a str (an int, a list): truthy, without str's methods
NonStr == <<"NonStr">>
IsStr(v) == v # None /\ v # NonStr
\* "not v" of Python for the values of the model
Falsy(v) == v = None \/ v = <<>>

preprocess_text(t) ==
    IF Falsy(t) THEN <<>>
    ELSE Join(CapitalizeEach(SplitOn(RemoveSpecial(RemoveRepeated(CollapseWs(Strip(t)))), ".")),
              <<".", " ">>)

preprocess_question(q) ==
    IF Falsy(q) THEN <<>>
    ELSE LET stripped == Strip(q)
             marked == IF EndsWith(stripped, "?") THEN stripped ELSE Append(stripped, "?")
         IN Capitalize(marked)

(***************************************************************************)
(* calculate_answer_quality (lines 155-182), in hundredths.  The code adds *)
(* floats; the model adds the exact hundredths.                            *)
(***************************************************************************)
GenericPhrases ==
    { <<"i", " ", "d", "o", "n", "'", "t", " ", "k", "n", "o", "w">>,
      <<"n", "o", "t", " ", "s", "u", "r", "e">>,
      <<"u", "n", "c", "l", "e", "a", "r">>,
      <<"m", "a", "y", "b", "e">>,
      <<"p", "o", "s", "s", "i", "b", "l", "y">> }

\* a variant of line 182 that bounds the sum from above only
calculate_answer_quality_no_floor(answer, q, context) ==
    IF Falsy(answer) \/ Len(Strip(answer)) < 3 THEN 0
    ELSE LET short == IF Len(answer) < 10 THEN -20 ELSE 0
             keyword_overlap ==
                 Cardinality(WordSet(LowerStr(q)) \cap WordSet(LowerStr(answer)))
             generic == IF \E phrase \in GenericPhrases : Contains(LowerStr(answer), phrase)
                        THEN -30 ELSE 0
             complete == IF EndsWith(answer, ".") \/ EndsWith(answer, "!") THEN 10 ELSE 0
         IN Min(100, short + 10 * keyword_overlap + generic + complete)

\* a variant of line 182 that returns the sum as it is
calculate_answer_quality_unclamped(answer, q, context) ==
    IF Falsy(answer) \/ Len(Strip(answer)) < 3 THEN 0
    ELSE LET short == IF Len(answer) < 10 THEN -20 ELSE 0
             keyword_overlap ==
                 Cardinality(WordSet(LowerStr(q)) \cap WordSet(LowerStr(answer)))
             generic == IF \E phrase \in GenericPhrases : Contains(LowerStr(answer), phrase)
                        THEN -30 ELSE 0
             complete == IF EndsWith(answer, ".") \/ EndsWith(answer, "!") THEN 10 ELSE 0
         IN short + 10 * keyword_overlap + generic + complete

calculate_answer_quality(answer, q, context) ==
    IF Falsy(answer) \/ Len(Strip(answer)) < 3 THEN 0
    ELSE LET short == IF Len(answer) < 10 THEN -20 ELSE 0
             keyword_overlap ==
                 Cardinality(WordSet(LowerStr(q)) \cap WordSet(LowerStr(answer)))
             generic == IF \E phrase \in GenericPhrases : Contains(LowerStr(answer), phrase)
                        THEN -30 ELSE 0
             complete == IF EndsWith(answer, ".") \/ EndsWith(answer, "!") THEN 10 ELSE 0
         IN Max(0, Min(100, short + 10 * keyword_overlap + generic + complete))

(***************************************************************************)
(* post_process_answer (lines 334-352).                                    *)
(***************************************************************************)
\* a variant of lines 345-346 that leaves the first character as it is
post_process_answer_uncapitalized(answer, q) ==
    IF Falsy(answer) THEN answer
    ELSE LET sentences == SplitOn(answer, ".")
             n == Len(sentences)
             a1 == IF n > 1 /\ Len(Strip(sentences[n])) < 10
                   THEN Append(Join(SubSeq(sentences, 1, n - 1), <<".">>), ".")
                   ELSE answer
             a3 == IF a1 # <<>> /\ ~(a1[Len(a1)] \in Terminators)
                   THEN Append(a1, ".") ELSE a1
         IN Strip(a3)

post_process_answer(answer, q) ==
    IF Falsy(answer) THEN answer
    ELSE LET sentences == SplitOn(answer, ".")
             n == Len(sentences)
             a1 == IF n > 1 /\ Len(Strip(sentences[n])) < 10
                   THEN Append(Join(SubSeq(sentences, 1, n - 1), <<".">>), ".")
                   ELSE answer
             a2 == IF a1 # <<>> /\ ~IsUpper(a1[1]) THEN Capitalize(a1) ELSE a1
             a3 == IF a2 # <<>> /\ ~(a2[Len(a2)] \in Terminators)
                   THEN Append(a2, ".") ELSE a2
         IN Strip(a3)

(***************************************************************************)
(* The fixed Results of answer_question.  A message is kept whole, as one  *)
(* element, so that it differs from every answer spelled in characters.    *)
(***************************************************************************)
InputErrorMessage ==
    <<"I couldn't process your question. Please make sure both the transcript and question are valid.">>
NoAnswerMessage ==
    <<"I couldn't find an answer to your question in the transcript. Try asking about specific topics mentioned in the conversation.">>
LowConfidenceMessage ==
    <<"I found some potential answers but I'm not confident about them. Could you try rephrasing your question more specifically?">>
UnexpectedErrorMessage ==
    <<"Sorry, I encountered an error while processing your question. Please try again.">>

FixedResult(message) == [answer |-> message, confidence |-> 0, source_text |-> <<>>]
InputErrorResult == FixedResult(InputErrorMessage)
NoAnswerResult == FixedResult(NoAnswerMessage)
LowConfidenceResult == FixedResult(LowConfidenceMessage)
UnexpectedErrorResult == FixedResult(UnexpectedErrorMessage)

(***************************************************************************)
(* Configuration (app/config.py) and the literals of answer_question.      *)
(***************************************************************************)
\* QA_CONFIDENCE_THRESHOLD, 0.05
QA_CONFIDENCE_THRESHOLD == 5
\* line 318: the cap on the reported confidence, 0.95
ConfidenceCap == 95
\* line 261: the minimum length of a candidate's stripped answer
MinAnswerLength == 3
\* lines 305-307: the characters of context kept on each side of the answer
ExcerptPad == 50
\* line 250: top_k
TopK == 3
\* QA_CHUNK_SIZE and QA_CHUNK_OVERLAP, scaled down from 350 and 75 words
QA_CHUNK_SIZE == 2
QA_CHUNK_OVERLAP == 0
\* the oracle answers a window with at most this many spans (at most TopK)
MaxOracleResults == 2

(***************************************************************************)
(* answer_question (lines 184-332): the steps after the windows are made.  *)
(***************************************************************************)
\* a variant of line 261 that keeps every non-empty span
QualifiesAnyLength(answer) == Len(answer) >= 1

\* line 261
Qualifies(answer) == Len(answer) >= MinAnswerLength

\* lines 257-272: the candidates one window's results add
RECURSIVE ProcessResults(_, _, _, _)
ProcessResults(results, q, chunk, i) ==
    IF results = <<>> THEN <<>>
    ELSE LET answer == Strip(Head(results).answer)
             confidence == Head(results).score
             rest == ProcessResults(Tail(results), q, chunk, i)
         IN IF Qualifies(answer)
            THEN <<[answer |-> answer,
                    confidence |-> confidence + calculate_answer_quality(answer, q, chunk),
                    original_confidence |-> confidence,
                    source_chunk |-> chunk,
                    chunk_index |-> i]>> \o rest
            ELSE rest

\* a variant of lines 274-280 that drops what earlier windows gave
OnWindowErrorDiscard(answers) == <<>>

\* lines 274-280: the except clause of one window: log and continue
OnWindowError(answers) == answers

\* a variant of line 290 whose sort puts a later candidate before its equals
RECURSIVE InsertDescBeforeEquals(_, _)
InsertDescBeforeEquals(sorted, x) ==
    IF sorted = <<>> THEN <<x>>
    ELSE IF Head(sorted).confidence > x.confidence
         THEN <<Head(sorted)>> \o InsertDescBeforeEquals(Tail(sorted), x)
         ELSE <<x>> \o sorted

\* line 290: list.sort(key=confidence, reverse=True), which is stable
RECURSIVE InsertDesc(_, _)
InsertDesc(sorted, x) ==
    IF sorted = <<>> THEN <<x>>
    ELSE IF Head(sorted).confidence >= x.confidence
         THEN <<Head(sorted)>> \o InsertDesc(Tail(sorted), x)
         ELSE <<x>> \o sorted
RECURSIVE SortByConfidence(_)
SortByConfidence(answers) ==
    IF answers = <<>> THEN <<>>
    ELSE InsertDesc(SortByConfidence(SubSeq(answers, 1, Len(answers) - 1)),
                    answers[Len(answers)])

\* a variant of line 294 that gates on the adjusted score
GateFailsAdjusted(best, threshold) == best.confidence < threshold

\* line 294: the confidence gate
GateFails(best, threshold) == best.original_confidence < threshold

\* a variant of line 318 that reports the adjusted score
ReportedAdjusted(best) == Min(best.confidence, ConfidenceCap)

\* line 318
ReportedConfidence(best) == Min(best.original_confidence, ConfidenceCap)

\* lines 305-308 and 319: the excerpt around the answer
SourceText(source_chunk, final_answer) ==
    LET found == Find(source_chunk, final_answer)
        source_start == Max(0, found - ExcerptPad)
        source_end == Min(Len(source_chunk), found + Len(final_answer) + ExcerptPad)
    IN Strip(PySlice(source_chunk, source_start, source_end))

\* lines 282-320: from the collected candidates to the Result
SelectResult(answers, q, threshold) ==
    IF answers = <<>> THEN NoAnswerResult
    ELSE LET best_answer == SortByConfidence(answers)[1]
             final_answer == post_process_answer(best_answer.answer, q)
         IN IF GateFails(best_answer, threshold) THEN LowConfidenceResult
            ELSE [answer |-> final_answer,
                  confidence |-> ReportedConfidence(best_answer),
                  source_text |-> SourceText(best_answer.source_chunk, final_answer)]

\* a variant of lines 322-332 that lets the exception out
OuterExceptReraise == [pc |-> "qa_raised", result |-> NoResult]

\* lines 322-332: the outermost except clause
OuterExcept == [pc |-> "qa_done", result |-> UnexpectedErrorResult]

(***************************************************************************)
(* _load_qa_model (lines 13-59).                                           *)
(***************************************************************************)
\* each thread calls _load_qa_model at most this many times
MaxCalls == 2

\* the object a constructor returns: its kind, the thread and the call that made it
Handle(kind, t, n) == <<kind, t, n>>

\* line 17
NeedsLoad(m, tk) == m = None \/ tk = None

\* lines 51-57: the except clause logs and raises again
LoadRaise(t) ==
    /\ tpc' = [tpc EXCEPT ![t] = "idle"]
    /\ treturned' = [treturned EXCEPT ![t] = <<"raised">>]

\* a thread enters _load_qa_model
LoadCall(t) ==
    /\ tpc[t] = "idle"
    /\ tcalls[t] < MaxCalls
    /\ tcalls' = [tcalls EXCEPT ![t] = @ + 1]
    /\ tpc' = [tpc EXCEPT ![t] = "check"]
    /\ treturned' = [treturned EXCEPT ![t] = NoReturn]
    /\ UNCHANGED <<fnVars, oracle, globalVars, constructions, chunkVars, pc, qaVars>>

\* line 17: the test of the globals
LoadCheck(t) ==
    /\ tpc[t] = "check"
    /\ tpc' = [tpc EXCEPT ![t] =
                  IF NeedsLoad(qa_model, qa_tokenizer) THEN "tokenizer" ELSE "return"]
    /\ UNCHANGED <<fnVars, oracle, globalVars, treturned, tcalls, constructions, chunkVars, pc, qaVars>>

\* line 30: _qa_tokenizer = AutoTokenizer.from_pretrained(model_name), or it raises
LoadTokenizer(t) ==
    /\ tpc[t] = "tokenizer"
    /\ \/ /\ qa_tokenizer' = Handle("tokenizer", t, tcalls[t])
          /\ constructions' = constructions \cup {Handle("tokenizer", t, tcalls[t])}
          /\ tpc' = [tpc EXCEPT ![t] = "model"]
          /\ UNCHANGED <<qa_model, qa_pipeline, treturned>>
       \/ /\ LoadRaise(t)
          /\ UNCHANGED <<globalVars, constructions>>
    /\ UNCHANGED <<fnVars, oracle, tcalls, chunkVars, pc, qaVars>>

\* line 31: _qa_model = AutoModelForQuestionAnswering.from_pretrained(model_name)
LoadModel(t) ==
    /\ tpc[t] = "model"
    /\ \/ /\ qa_model' = Handle("model", t, tcalls[t])
          /\ constructions' = constructions \cup {Handle("model", t, tcalls[t])}
          /\ tpc' = [tpc EXCEPT ![t] = "pipeline"]
          /\ UNCHANGED <<qa_tokenizer, qa_pipeline, treturned>>
       \/ /\ LoadRaise(t)
          /\ UNCHANGED <<globalVars, constructions>>
    /\ UNCHANGED <<fnVars, oracle, tcalls, chunkVars, pc, qaVars>>

\* lines 34-49: _qa_pipeline = pipeline(...), then _qa_model.eval() and the log
LoadPipeline(t) ==
    /\ tpc[t] = "pipeline"
    /\ \/ /\ qa_pipeline' = Handle("pipeline", t, tcalls[t])
          /\ constructions' = constructions \cup {Handle("pipeline", t, tcalls[t])}
          /\ tpc' = [tpc EXCEPT ![t] = "return"]
          /\ UNCHANGED <<qa_model, qa_tokenizer, treturned>>
       \/ /\ LoadRaise(t)
          /\ UNCHANGED <<globalVars, constructions>>
    /\ UNCHANGED <<fnVars, oracle, tcalls, chunkVars, pc, qaVars>>

\* line 59: return _qa_model, _qa_tokenizer, _qa_pipeline
LoadReturn(t) ==
    /\ tpc[t] = "return"
    /\ treturned' = [treturned EXCEPT ![t] = <<qa_model, qa_tokenizer, qa_pipeline>>]
    /\ tpc' = [tpc EXCEPT ![t] = "idle"]
    /\ UNCHANGED <<fnVars, oracle, globalVars, tcalls, constructions, chunkVars, pc, qaVars>>

\* lines 17-59 run by one caller alone, from globals m, tk, p: every way the call
\* can end, as the globals it leaves and whether it raised
LoadOutcomes(m, tk, p) ==
    IF ~NeedsLoad(m, tk)
    THEN {[model |-> m, tokenizer |-> tk, pipeline |-> p, raised |-> FALSE]}
    ELSE LET tk1 == Handle("tokenizer", 0, 0)
             m1 == Handle("model", 0, 0)
             p1 == Handle("pipeline", 0, 0)
         IN { [model |-> m, tokenizer |-> tk, pipeline |-> p, raised |-> TRUE],
              [model |-> m, tokenizer |-> tk1, pipeline |-> p, raised |-> TRUE],
              [model |-> m1, tokenizer |-> tk1, pipeline |-> p, raised |-> TRUE],
              [model |-> m1, tokenizer |-> tk1, pipeline |-> p1, raised |-> FALSE] }

(***************************************************************************)
(* answer_question (lines 184-332), step by step.                          *)
(***************************************************************************)
\* the spans the oracle may return, and the scores it may give them
AnswerPool ==
    { <<"a", " ", "b", " ", "c">>,
      <<"A", "b", "c", "!">>,
      <<" ", "d", " ">> }
ScorePool == {3, 10, 98}
OracleCandidates == [answer : AnswerPool, score : ScorePool]
\* what one call of the pipeline does: it raises, or returns up to top_k spans
RaisedOutcome == [raised |-> TRUE, results |-> <<>>]
OracleOutcomes ==
    {RaisedOutcome}
    \cup {[raised |-> FALSE, results |-> r] :
             r \in SeqsUpTo(OracleCandidates, Min(MaxOracleResults, TopK))}

\* lines 196-212: the configuration is read and the oracle loaded
QALoad ==
    /\ pc = "qa_start"
    /\ \E o \in LoadOutcomes(qa_model, qa_tokenizer, qa_pipeline) :
          /\ qa_model' = o.model
          /\ qa_tokenizer' = o.tokenizer
          /\ qa_pipeline' = o.pipeline
          /\ IF o.raised
             THEN pc' = OuterExcept.pc /\ result' = OuterExcept.result
             ELSE pc' = "qa_preprocess" /\ result' = result
    /\ UNCHANGED <<fnVars, oracle, loaderVars, chunkVars, transcript, question, ci, all_answers, oracle_log>>

\* lines 215-223: both inputs are normalized, and an empty one ends the request
QAPreprocess ==
    /\ pc = "qa_preprocess"
    /\ IF ~IsStr(transcript) /\ ~Falsy(transcript)
       THEN \* text.strip() of a value that is no str raises, caught at line 322
            /\ pc' = OuterExcept.pc /\ result' = OuterExcept.result
            /\ UNCHANGED <<transcript, question, chunkVars>>
       ELSE /\ transcript' = preprocess_text(transcript)
            /\ question' = preprocess_question(question)
            /\ IF Falsy(preprocess_text(transcript)) \/ Falsy(preprocess_question(question))
               THEN /\ pc' = "qa_done" /\ result' = InputErrorResult
                    /\ UNCHANGED chunkVars
               ELSE \* line 233: smart_chunking(transcript, question)
                    /\ pc' = "chunk_enter" /\ result' = result
                    /\ text' = preprocess_text(transcript)
                    /\ max_length' = QA_CHUNK_SIZE
                    /\ overlap' = QA_CHUNK_OVERLAP
                    /\ UNCHANGED <<words, start, chunks>>
    /\ UNCHANGED <<fnVars, oracle, globalVars, loaderVars, ci, all_answers, oracle_log>>

\* a variant of lines 274-280 that calls the pipeline again on a window it failed on
NextWindowRetry(i, raised) == IF raised THEN i ELSE i + 1

\* line 243 and line 280: the loop moves to the next window, after a failure too
NextWindow(i, raised) == i + 1

\* lines 243-280: one window: the pipeline is called, and its results are
\* processed or its failure is logged
QAWindow ==
    /\ pc = "chunk_done"
    /\ ci < Len(chunks)
    \* calling the pipeline when _qa_pipeline is None raises TypeError
    /\ \E o \in (IF qa_pipeline = None THEN {RaisedOutcome} ELSE oracle) :
          /\ oracle_log' = Append(oracle_log, [window |-> ci, context |-> chunks[ci + 1],
                                               top_k |-> TopK, outcome |-> o])
          /\ all_answers' =
                IF o.raised THEN OnWindowError(all_answers)
                ELSE all_answers \o ProcessResults(o.results, question, chunks[ci + 1], ci)
          /\ ci' = NextWindow(ci, o.raised)
    /\ UNCHANGED <<fnVars, oracle, globalVars, loaderVars, chunkVars, pc, transcript, question, result>>

\* lines 282-320: after the last window
QASelect ==
    /\ pc = "chunk_done"
    /\ ci = Len(chunks)
    /\ result' = SelectResult(all_answers, question, QA_CONFIDENCE_THRESHOLD)
    /\ pc' = "qa_done"
    /\ UNCHANGED <<fnVars, oracle, globalVars, loaderVars, chunkVars, transcript, question, ci,
                   all_answers, oracle_log>>

(***************************************************************************)
(* smart_chunking called on its own: every text of at most MaxTextWords    *)
(* words over WordPool, single-spaced as preprocess_text leaves it, every  *)
(* max_length in 1..MaxChunkSize and every overlap in 0..MaxOverlap.       *)
(***************************************************************************)

\* a short word, a long word that ends a sentence, a word with a terminator inside
WordPool ==
    { <<"a">>,
      Append(Repeat(<<"b">>, 17), "."),
      <<"c", "c", "!", "d">> }

ChunkTexts == {Join(ws, <<" ">>) : ws \in SeqsUpTo(WordPool, MaxTextWords) \ {<<>>}}

IdleGlobals ==
    /\ qa_model = None /\ qa_tokenizer = None /\ qa_pipeline = None
IdleLoader ==
    /\ tpc = [t \in Threads |-> "idle"]
    /\ treturned = [t \in Threads |-> NoReturn]
    /\ tcalls = [t \in Threads |-> 0]
    /\ constructions = {}
IdleChunk ==
    /\ text = <<>> /\ max_length = 0 /\ overlap = 0
    /\ words = <<>> /\ start = 0 /\ chunks = <<>>
IdleQA ==
    /\ transcript = <<>> /\ question = <<>> /\ ci = 0
    /\ all_answers = <<>> /\ oracle_log = <<>> /\ result = NoResult
IdleFn ==
    /\ call = NoCall /\ ret = NoReturn

InitChunk ==
    /\ IdleGlobals /\ IdleLoader /\ IdleQA /\ IdleFn /\ oracle = {}
    /\ pc = "chunk_enter"
    /\ text \in ChunkTexts
    /\ max_length \in 1..MaxChunkSize
    /\ overlap \in 0..MaxOverlap
    /\ words = <<>> /\ start = 0 /\ chunks = <<>>

NextChunk == ChunkEnter \/ ChunkIter

SpecChunk == InitChunk /\ [][NextChunk]_vars

(***************************************************************************)
(* Concurrent callers of _load_qa_model, in a fresh process.               *)
(***************************************************************************)
InitLoad ==
    /\ IdleGlobals /\ IdleLoader /\ IdleChunk /\ IdleQA /\ IdleFn /\ oracle = {}
    /\ pc = "idle"

NextLoad ==
    \E t \in Threads :
        \/ LoadCall(t) \/ LoadCheck(t) \/ LoadTokenizer(t)
        \/ LoadModel(t) \/ LoadPipeline(t) \/ LoadReturn(t)

SpecLoad == InitLoad /\ [][NextLoad]_vars

(***************************************************************************)
(* One request of answer_question, in a process where earlier requests     *)
(* may have loaded the oracle, or failed part-way through loading it.      *)
(***************************************************************************)
TranscriptPool ==
    { <<>>, <<" ">>, NonStr,
      <<"a", "b", "c", "!", " ", "d", " ", "e">> }
QuestionPool ==
    { <<>>, <<" ">>,
      <<"a", " ", "b", " ", "c">> }
\* the globals as calls of _load_qa_model can leave them
GlobalsPool ==
    { <<None, None, None>>,
      <<None, Handle("tokenizer", 0, 0), None>>,
      <<Handle("model", 0, 0), Handle("tokenizer", 0, 0), None>>,
      <<Handle("model", 0, 0), Handle("tokenizer", 0, 0), Handle("pipeline", 0, 0)>> }

InitQA ==
    /\ IdleLoader /\ IdleChunk /\ IdleFn
    /\ oracle = OracleOutcomes
    /\ \E g \in GlobalsPool :
          qa_model = g[1] /\ qa_tokenizer = g[2] /\ qa_pipeline = g[3]
    /\ pc = "qa_start"
    /\ transcript \in TranscriptPool
    /\ question \in QuestionPool
    /\ ci = 0 /\ all_answers = <<>> /\ oracle_log = <<>> /\ result = NoResult

NextQA == QALoad \/ QAPreprocess \/ ChunkEnter \/ ChunkIter \/ QAWindow \/ QASelect

SpecQA == InitQA /\ [][NextQA]_vars

(***************************************************************************)
(* One request over a transcript of a single window, with a pipeline that  *)
(* returns one hedged span, "maybe", with the score 0.8.                   *)
(***************************************************************************)
MaybeAnswer == <<"m", "a", "y", "b", "e">>
MaybeScore == 80
MaybeOracle ==
    {[raised |-> FALSE, results |-> <<[answer |-> MaybeAnswer, score |-> MaybeScore]>>]}

ScenarioWordPool == {MaybeAnswer, <<"s", "o">>, <<"x", ".">>}
\* transcripts of at most QA_CHUNK_SIZE words: smart_chunking returns them whole
ScenarioTranscripts ==
    {Join(ws, <<" ">>) : ws \in SeqsUpTo(ScenarioWordPool, QA_CHUNK_SIZE) \ {<<>>}}
ScenarioQuestions ==
    { <<" ">>,
      <<"w", "h", "a", "t">>,
      <<"m", "a", "y", "b", "e", " ", "s", "o">> }

InitScenario ==
    /\ IdleLoader /\ IdleChunk /\ IdleFn
    /\ oracle = MaybeOracle
    /\ \E g \in GlobalsPool :
          qa_model = g[1] /\ qa_tokenizer = g[2] /\ qa_pipeline = g[3]
    /\ pc = "qa_start"
    /\ transcript \in ScenarioTranscripts
    /\ question \in ScenarioQuestions
    /\ ci = 0 /\ all_answers = <<>> /\ oracle_log = <<>> /\ result = NoResult

NextScenario == QALoad \/ QAPreprocess \/ ChunkEnter \/ QAWindow \/ QASelect

SpecScenario == InitScenario /\ [][NextScenario]_vars

(***************************************************************************)
(* smart_chunking with the default window of 350 words and overlap of 75   *)
(* words, on normalized transcripts of a thousand words: sentences of d    *)
(* words each, for every d up to MaxSentenceWords, and one sentence alone. *)
(***************************************************************************)
\* the words of the transcript
ScenarioWords == 1000
\* the longest sentence, in words, of the transcripts with more than one
MaxSentenceWords == 100
\* lines 109 and 116: the fallbacks of max_length and overlap
DefaultChunkSize == 350
DefaultChunkOverlap == 75

\* word i of a transcript of n words in sentences of d words, as preprocess_text
\* leaves it: a sentence starts with a capital and ends with a full stop,
\* but for the last one
SentenceWord(i, d, n) ==
    (IF (i - 1) % d = 0 THEN <<"A">> ELSE <<"a">>)
        \o (IF i % d = 0 /\ i < n THEN <<".">> ELSE <<>>)
SentenceText(d, n) == Join([i \in 1..n |-> SentenceWord(i, d, n)], <<" ">>)
ThousandWordTexts ==
    {SentenceText(d, ScenarioWords) : d \in (1..MaxSentenceWords) \cup {ScenarioWords}}

InitThousand ==
    /\ IdleGlobals /\ IdleLoader /\ IdleQA /\ IdleFn /\ oracle = {}
    /\ pc = "chunk_enter"
    /\ text \in ThousandWordTexts
    /\ max_length = DefaultChunkSize
    /\ overlap = DefaultChunkOverlap
    /\ words = <<>> /\ start = 0 /\ chunks = <<>>

SpecThousand == InitThousand /\ [][NextChunk]_vars

(***************************************************************************)
(* One function of the module called on its own: post_process_answer,      *)
(* preprocess_text or calculate_answer_quality, on every argument of a     *)
(* bounded pool.                                                           *)
(***************************************************************************)
\* the longest answer and the longest text, in characters, of the pools below
MaxAnswerChars == 3
MaxTextChars == 4

\* a lowercase letter, an uppercase letter, a digit, a full stop, a space
AnswerChars == {"a", "B", "3", ".", " "}
\* two answers whose text after the last full stop is long, and short
LongAnswers ==
    { Repeat(<<"a">>, 10) \o <<".", " ">> \o Repeat(<<"b">>, 10),
      Repeat(<<"a">>, 10) \o <<".", " ", "b", "b">> }
PostProcessAnswers == SeqsUpTo(AnswerChars, MaxAnswerChars) \cup LongAnswers \cup {None}

\* two letters, a space, a full stop, a character line 71 removes
TextChars == {"a", "b", " ", ".", "#"}
PreprocessTexts == SeqsUpTo(TextChars, MaxTextChars) \cup {None}

\* answers that are short, hedged, complete, or that share words with a question
QualityAnswers ==
    PostProcessAnswers
    \cup { <<"m", "a", "y", "b", "e">>,
           <<"a", " ", "b", " ", "c", ".">>,
           <<"n", "o", "t", " ", "s", "u", "r", "e", " ", "y", "e", "t", "!">>,
           <<"a", " ", "b", " ", "c", " ", "d", " ", "e", " ", "f", " ", "g", " ", "h", " ", "i", " ", "j", " ", "k", " ", "l">> }
QualityQuestions ==
    { <<"?">>,
      <<"A", " ", "b", " ", "c", "?">>,
      <<"A", " ", "b", " ", "c", " ", "d", " ", "e", " ", "f", " ", "g", " ", "h", " ", "i", " ", "j", " ", "k", " ", "l", "?">> }

FnCalls ==
    {[fn |-> "post_process_answer", args |-> <<a, <<"?">>>>] : a \in PostProcessAnswers}
    \cup {[fn |-> "preprocess_text", args |-> <<t>>] : t \in PreprocessTexts}
    \cup {[fn |-> "calculate_answer_quality", args |-> <<a, q, a>>] :
             a \in QualityAnswers, q \in QualityQuestions}

CallPostProcess ==
    /\ pc = "fn_call" /\ call.fn = "post_process_answer"
    /\ ret' = post_process_answer(call.args[1], call.args[2])
    /\ pc' = "fn_done"
    /\ UNCHANGED <<globalVars, loaderVars, chunkVars, qaVars, oracle, call>>

CallPreprocessText ==
    /\ pc = "fn_call" /\ call.fn = "preprocess_text"
    /\ ret' = preprocess_text(call.args[1])
    /\ pc' = "fn_done"
    /\ UNCHANGED <<globalVars, loaderVars, chunkVars, qaVars, oracle, call>>

CallQuality ==
    /\ pc = "fn_call" /\ call.fn = "calculate_answer_quality"
    /\ ret' = calculate_answer_quality(call.args[1], call.args[2], call.args[3])
    /\ pc' = "fn_done"
    /\ UNCHANGED <<globalVars, loaderVars, chunkVars, qaVars, oracle, call>>

InitFn ==
    /\ IdleGlobals /\ IdleLoader /\ IdleChunk /\ IdleQA /\ oracle = {}
    /\ pc = "fn_call"
    /\ call \in FnCalls
    /\ ret = NoReturn

NextFn == CallPostProcess \/ CallPreprocessText \/ CallQuality

SpecFn == InitFn /\ [][NextFn]_vars

(***************************************************************************)
(* Properties.                                                             *)
(***************************************************************************)
FixedMessages ==
    {InputErrorMessage, NoAnswerMessage, LowConfidenceMessage, UnexpectedErrorMessage}
\* the request ended with an answer taken from a candidate
IsAnswer(r) == r # NoResult /\ r.answer \notin FixedMessages
\* a Result as answer_question documents it
IsResult(r) ==
    /\ DOMAIN r = {"answer", "confidence", "source_text"}
    /\ r.answer # None /\ r.source_text # None
    /\ r.confidence \in 0..100
\* the position of the candidate ranked first: the highest adjusted score,
\* and the earliest recorded among equals
TopIndex(answers) ==
    CHOOSE i \in 1..Len(answers) :
        \A j \in 1..Len(answers) :
            /\ answers[j].confidence <= answers[i].confidence
            /\ j < i => answers[j].confidence < answers[i].confidence
TopCandidate(answers) == answers[TopIndex(answers)]
\* the windows of the log on which the pipeline raised
FailedWindows == {i \in 1..Len(oracle_log) : oracle_log[i].outcome.raised}
\* the spans the pipeline returned, over all windows of the log
ReturnedSpans ==
    UNION {{oracle_log[i].outcome.results[k].answer :
               k \in 1..Len(oracle_log[i].outcome.results)} : i \in 1..Len(oracle_log)}
\* the candidates the windows of the log give, failing windows giving none
RECURSIVE CandidatesOfLog(_)
CandidatesOfLog(log) ==
    IF log = <<>> THEN <<>>
    ELSE LET last == log[Len(log)]
         IN CandidatesOfLog(SubSeq(log, 1, Len(log) - 1))
            \o (IF last.outcome.raised THEN <<>>
                ELSE ProcessResults(last.outcome.results, question,
                                    chunks[last.window + 1], last.window))

\* C1: answer_question never raises: a request that has ended has a Result
\* with the three keys, and a request in which the oracle could not be
\* loaded, or whose transcript is no str, ends with the generic failure Result
C1_NeverRaises ==
    /\ pc # "qa_raised"
    /\ pc = "qa_done" => IsResult(result)
    /\ (pc = "qa_done" /\ (NeedsLoad(qa_model, qa_tokenizer) \/ transcript = NonStr))
          => result = UnexpectedErrorResult
C1_Witness ==
    /\ pc = "qa_done"
    /\ qa_tokenizer # None /\ qa_model = None
    /\ result = UnexpectedErrorResult

\* C2: the loop of smart_chunking returns at least one window, and its start
\* position grows by at least one word on every iteration
C2_StartAdvances ==
    /\ [](pc = "chunk_done" => Len(chunks) >= 1)
    /\ [][(pc = "chunk_loop" /\ pc' = "chunk_loop") => start' > start]_vars

\* the windows' words with the first overlap words of every later window removed
RECURSIVE Rebuild(_, _)
Rebuild(windows, ov) ==
    IF windows = <<>> THEN <<>>
    ELSE IF Len(windows) = 1 THEN Split(windows[1])
    ELSE Rebuild(SubSeq(windows, 1, Len(windows) - 1), ov)
         \o PySlice(Split(windows[Len(windows)]), ov, Len(Split(windows[Len(windows)])))

\* C3: for a text of more than max_length words, the windows with their
\* overlaps removed are exactly the words of the text, in order
C3_Reconstructs ==
    (pc = "chunk_done" /\ Len(words) > max_length) => Rebuild(chunks, overlap) = words

\* C4: with at least one candidate, the request ends in the LowConfidence
\* Result exactly when the raw score of the candidate ranked first by adjusted
\* score is below the threshold, whatever the adjusted scores are
C4_GateOnRawScore ==
    (pc = "qa_done" /\ all_answers # <<>>) =>
        /\ (TopCandidate(all_answers).original_confidence < QA_CONFIDENCE_THRESHOLD)
              <=> (result = LowConfidenceResult)
        /\ (\A i \in 1..Len(all_answers) :
               all_answers[i].original_confidence < QA_CONFIDENCE_THRESHOLD)
              => ~IsAnswer(result)
C4_Witness ==
    /\ pc = "qa_done"
    /\ result = LowConfidenceResult
    /\ TopCandidate(all_answers).confidence >= QA_CONFIDENCE_THRESHOLD
    /\ \E i \in 1..Len(all_answers) :
           all_answers[i].original_confidence >= QA_CONFIDENCE_THRESHOLD

\* C5: the confidence of an answer is the raw score of the selected candidate
\* capped at 0.95, never the adjusted score
C5_ConfidenceIsCappedRaw ==
    (pc = "qa_done" /\ IsAnswer(result)) =>
        /\ result.confidence <= ConfidenceCap
        /\ result.confidence =
              Min(TopCandidate(all_answers).original_confidence, ConfidenceCap)
C5_Witness ==
    /\ pc = "qa_done" /\ IsAnswer(result)
    /\ TopCandidate(all_answers).original_confidence > ConfidenceCap
    /\ TopCandidate(all_answers).confidence > TopCandidate(all_answers).original_confidence
    /\ result.confidence = ConfidenceCap

\* C6: across all interleavings of the callers of _load_qa_model, each of the
\* tokenizer, the model and the pipeline is constructed at most once
C6_ConstructedOnce ==
    \A kind \in {"tokenizer", "model", "pipeline"} :
        Cardinality({c \in constructions : c[1] = kind}) <= 1

\* C7: a window on which the pipeline raises gives no candidate, the windows
\* after it are still queried, in order, the candidates of the other windows
\* are kept as they were, and the request ends as it would without that window
C7_WindowFailureTolerated ==
    /\ all_answers = CandidatesOfLog(oracle_log)
    /\ \A i \in 1..Len(oracle_log) : oracle_log[i].window = i - 1
    /\ (pc = "qa_done" /\ chunks # <<>>) =>
          /\ Len(oracle_log) = Len(chunks)
          /\ result = SelectResult(CandidatesOfLog(oracle_log), question,
                                   QA_CONFIDENCE_THRESHOLD)
C7_Witness ==
    /\ pc = "qa_done"
    /\ Len(oracle_log) = 2
    /\ oracle_log[1].outcome.results # <<>>
    /\ oracle_log[2].outcome.raised
    /\ IsAnswer(result)

\* C8: a request whose transcript or question is empty after normalization
\* ends in the InputError Result, whatever the state of the oracle
C8_InputError ==
    (/\ pc = "qa_done"
     /\ IsStr(transcript)
     /\ Falsy(preprocess_text(transcript)) \/ Falsy(preprocess_question(question)))
        => result = InputErrorResult

\* C9: when the windows have been processed and the oracle gave no span of
\* three or more characters once stripped, the request ends in the
\* NoAnswerFound Result; the four fixed messages differ; and an answer is
\* always the finalized text of a span of three or more stripped characters
C9_NoAnswerFound ==
    /\ Cardinality(FixedMessages) = 4
    /\ (/\ pc = "qa_done" /\ chunks # <<>>
        /\ \A sp \in ReturnedSpans : Len(Strip(sp)) < MinAnswerLength)
          => result = NoAnswerResult
    /\ (pc = "qa_done" /\ IsAnswer(result)) =>
          \E sp \in ReturnedSpans :
              /\ Len(Strip(sp)) >= MinAnswerLength
              /\ result.answer = post_process_answer(Strip(sp), question)
C9_Witness ==
    /\ pc = "qa_done"
    /\ result = NoAnswerResult
    /\ ReturnedSpans # {}
    /\ FailedWindows # {}

\* C10: the source excerpt is empty when the finalized answer does not occur
\* in the selected candidate's window, and otherwise the stripped slice of the
\* window from 50 characters before the occurrence to 50 characters after it
C10_Excerpt ==
    (pc = "qa_done" /\ IsAnswer(result)) =>
        LET window == TopCandidate(all_answers).source_chunk
            found == Find(window, result.answer)
        IN IF found = -1 THEN result.source_text = <<>>
           ELSE result.source_text =
                   Strip(SubSeq(window, Max(0, found - ExcerptPad) + 1,
                                Min(Len(window), found + Len(result.answer) + ExcerptPad)))

\* a cased letter
IsLetter(c) == IsLower(c) \/ IsUpper(c)
\* post_process_answer has returned for a non-empty answer
PostProcessed ==
    pc = "fn_done" /\ call.fn = "post_process_answer" /\ ~Falsy(call.args[1])

\* C11 (as stated): for every non-empty answer post_process_answer returns a
\* text that ends with '.', '!' or '?' and whose first character is uppercase
C11_EndsAndStartsUpper ==
    PostProcessed =>
        /\ ret # <<>>
        /\ ret[Len(ret)] \in Terminators
        /\ IsUpper(ret[1])

\* C11: for every non-empty answer post_process_answer returns a text that
\* ends with '.', '!' or '?'; its first character is uppercase whenever the
\* answer's first character is a letter
C11_EndsAndCapitalizesLetter ==
    PostProcessed =>
        /\ ret # <<>>
        /\ ret[Len(ret)] \in Terminators
        /\ IsLetter(call.args[1][1]) => IsUpper(ret[1])
C11_Witness ==
    /\ PostProcessed
    /\ IsLower(call.args[1][1])
    /\ IsUpper(ret[1])
    /\ ~(call.args[1][Len(call.args[1])] \in Terminators)

\* the words with every word that repeats the word before it left out
RECURSIVE DedupWords(_)
DedupWords(ws) ==
    IF Len(ws) <= 1 THEN ws
    ELSE LET front == DedupWords(SubSeq(ws, 1, Len(ws) - 1))
         IN IF ws[Len(ws)] = ws[Len(ws) - 1] THEN front ELSE Append(front, ws[Len(ws)])
\* preprocess_text has returned for a text written in letters and spaces
PreprocessedPlain ==
    /\ pc = "fn_done" /\ call.fn = "preprocess_text" /\ IsStr(call.args[1])
    /\ \A i \in 1..Len(call.args[1]) : IsLower(call.args[1][i]) \/ call.args[1][i] = " "

\* C12: preprocess_text writes a word repeated next to itself once, and
\* changes the characters of no other word: for a text of lowercase letters
\* and spaces the result is, but for the capital, the words without the
\* repeats, joined by single spaces
C12_RepeatedWordsOnly ==
    PreprocessedPlain =>
        LowerStr(ret) = Join(DedupWords(Split(call.args[1])), <<" ">>)

\* the request over one window has ended, and the pipeline returned its span
MaybeAnswered ==
    /\ pc = "qa_done" /\ Len(chunks) = 1
    /\ Len(oracle_log) = 1 /\ ~oracle_log[1].outcome.raised
    /\ oracle_log[1].outcome.results = <<[answer |-> MaybeAnswer, score |-> MaybeScore]>>
MaybeFinal == <<"M", "a", "y", "b", "e", ".">>

\* C13 (as stated): the span "maybe" scored 0.8 gets the quality delta -0.3,
\* so the adjusted score 0.5, and the Result is the answer "Maybe." with
\* the confidence 0.8
C13_MaybeDeltaMinus30 ==
    MaybeAnswered =>
        /\ Len(all_answers) = 1
        /\ all_answers[1].confidence - all_answers[1].original_confidence = -30
        /\ all_answers[1].confidence = 50
        /\ result.answer = MaybeFinal
        /\ result.confidence = 80

\* C13: the span "maybe" scored 0.8 gets the quality delta 0, the sum of its
\* penalties being clamped, so the adjusted score 0.8, and the Result is the
\* answer "Maybe." with the confidence 0.8
C13_MaybeDeltaClamped ==
    MaybeAnswered =>
        /\ Len(all_answers) = 1
        /\ all_answers[1].confidence - all_answers[1].original_confidence = 0
        /\ all_answers[1].confidence = 80
        /\ result.answer = MaybeFinal
        /\ result.confidence = 80
C13_Witness ==
    /\ MaybeAnswered
    /\ result.answer = MaybeFinal
    /\ Contains(chunks[1], <<"M", "a", "y", "b", "e">>)

\* smart_chunking has returned its windows for a transcript of a thousand words
ThousandChunked ==
    /\ pc = "chunk_done"
    /\ Len(words) = ScenarioWords
    /\ max_length = DefaultChunkSize /\ overlap = DefaultChunkOverlap
NoTerminator(s) == \A i \in 1..Len(s) : s[i] \notin Terminators

\* C14 (as stated): a normalized transcript of 1000 words, chunked with
\* max_length 350 and overlap 75, gives 3 or 4 windows, none longer in
\* characters than the transcript
C14_ThreeOrFourWindows ==
    ThousandChunked =>
        /\ Len(chunks) \in {3, 4}
        /\ \A i \in 1..Len(chunks) : Len(chunks[i]) <= Len(text)

\* C14: a normalized transcript of 1000 words, chunked with max_length 350
\* and overlap 75, gives at least 4 windows when smart_chunking returns, and
\* exactly 4 when the transcript has no sentence terminator; no window is
\* longer in characters than the transcript
C14_AtLeastFourWindows ==
    ThousandChunked =>
        /\ Len(chunks) >= 4
        /\ NoTerminator(text) => Len(chunks) = 4
        /\ \A i \in 1..Len(chunks) : Len(chunks[i]) <= Len(text)
C14_Witness ==
    /\ ThousandChunked
    /\ Len(chunks) = 4
    /\ ~NoTerminator(text)
    /\ Len(Split(chunks[1])) < DefaultChunkSize

\* C15: when candidates were recorded, in the order of their windows, the one
\* selected has the highest adjusted score, and among those with that score
\* it is the one recorded first; the answer, the confidence and the excerpt
\* of the Result, or the LowConfidence Result, are made from that candidate
C15_FirstOfHighestSelected ==
    (pc = "qa_done" /\ all_answers # <<>>) =>
        LET top == TopCandidate(all_answers)
        IN /\ \A i, j \in 1..Len(all_answers) :
                 i < j => all_answers[i].chunk_index <= all_answers[j].chunk_index
           /\ SortByConfidence(all_answers)[1] = top
           /\ IsAnswer(result) =>
                 /\ result.answer = post_process_answer(top.answer, question)
                 /\ result.confidence = Min(top.original_confidence, ConfidenceCap)
                 /\ result.source_text = SourceText(top.source_chunk, result.answer)
           /\ ~IsAnswer(result) =>
                 /\ result = LowConfidenceResult
                 /\ top.original_confidence < QA_CONFIDENCE_THRESHOLD
C15_Witness ==
    /\ pc = "qa_done" /\ IsAnswer(result)
    /\ \E j \in 1..Len(all_answers) :
          /\ TopIndex(all_answers) < j
          /\ all_answers[j].confidence = TopCandidate(all_answers).confidence
          /\ all_answers[j].chunk_index # TopCandidate(all_answers).chunk_index
          /\ result.source_text # SourceText(all_answers[j].source_chunk, result.answer)

\* calculate_answer_quality has returned
QualityReturned == pc = "fn_done" /\ call.fn = "calculate_answer_quality"

\* C16: calculate_answer_quality returns a delta between 0.0 and 1.0, so the
\* adjusted score is never below the raw score, and it returns 0.0 for an
\* answer that is empty or has fewer than 3 characters once stripped
C16_DeltaWithinUnit ==
    QualityReturned =>
        /\ ret \in 0..100
        /\ \A raw \in ScorePool : raw + ret >= raw
        /\ (Falsy(call.args[1]) \/ Len(Strip(call.args[1])) < MinAnswerLength) => ret = 0
C16_Witness ==
    /\ QualityReturned
    /\ call.args[1] = <<"n", "o", "t", " ", "s", "u", "r", "e", " ", "y", "e", "t", "!">>
    /\ ret = 0

\* C17: for a text of more than max_length words, each window after the
\* first begins overlap words before the place where the window before it
\* ended: the last overlap words of a window are the first overlap words of
\* the next
C17_OverlapShared ==
    (pc = "chunk_done" /\ Len(words) > max_length) =>
        \A i \in 1..(Len(chunks) - 1) :
            LET earlier == Split(chunks[i])
                later == Split(chunks[i + 1])
            IN /\ Len(earlier) >= overlap
               /\ Len(later) >= overlap
               /\ SubSeq(earlier, Len(earlier) - overlap + 1, Len(earlier))
                     = SubSeq(later, 1, overlap)

\* C19: every window smart_chunking returns has at least one word and at
\* most max_length words, unless the text is returned whole as the one window
C19_WindowsNonEmptyAndBounded ==
    (pc = "chunk_done" /\ Len(words) > max_length) =>
        \A i \in 1..Len(chunks) :
            /\ chunks[i] # <<>>
            /\ Len(Split(chunks[i])) \in 1..max_length

\* C18: the pipeline is called once on each window, in the order of the
\* windows, asking for 3 spans each time; every window has been consulted,
\* the failing ones too, before a Result is made from the candidates; and it
\* is not called at all on a request that ends in the InputError Result
C18_OracleOncePerWindow ==
    /\ \A i \in 1..Len(oracle_log) :
          /\ oracle_log[i].window = i - 1
          /\ i <= Len(chunks) /\ oracle_log[i].context = chunks[i]
          /\ oracle_log[i].top_k = 3
    /\ Len(oracle_log) = ci
    /\ (result # NoResult /\ chunks # <<>>) => Len(oracle_log) = Len(chunks)
    /\ result = InputErrorResult => oracle_log = <<>>
C18_Witness ==
    /\ pc = "qa_done" /\ IsAnswer(result)
    /\ Len(chunks) = 2 /\ Len(oracle_log) = 2
    /\ oracle_log[1].outcome.raised
    /\ ~oracle_log[2].outcome.raised

\* C20: whenever a call of _load_qa_model returns normally, the model, the
\* tokenizer and the pipeline it returns are all loaded, also when an earlier
\* call failed part-way; stated for a thread that is the only caller
C20_ReturnsLoadedHandles ==
    \A t \in Threads :
        (/\ \A u \in Threads \ {t} : tcalls[u] = 0
         /\ treturned[t] # NoReturn /\ treturned[t] # <<"raised">>)
            => \A k \in 1..3 : treturned[t][k] # None

====
